---------------------------- MODULE Spec2Model ----------------------------
(***************************************************************************)
(* nexia-list: the note graph store (core/src/note.rs, notebook.rs,        *)
(* storage.rs).  A Notebook owns a map of notes and a reverse-link index;  *)
(* JsonStorage writes a notebook to a file and reads it back.              *)
(***************************************************************************)
EXTENDS Integers, Sequences, FiniteSets, TLC

(***************************************************************************)
(* Bounds of the model.                                                    *)
(***************************************************************************)
\* how many identifiers Uuid::new_v4 hands out in a run
MaxNotes == 2
\* how many add_link / remove_link calls a caller makes on a note it owns
\* before handing it to add_note
MaxEdits == 1

\* how far the clock advances in a run
MaxTime == 1

\* how many add_link / remove_link calls are made on the caller's own note
MaxCalls == 4

\* how many commands the desktop's user invokes in a batch
MaxInvocations == 3

\* how many notes the desktop's user creates in a run
MaxHostNotes == 1

\* note.rs:10  NoteId = Uuid; identifier k is the k-th one new_v4 returned
NoteId == 1..MaxNotes

\* the destination the callers save to and load from
Paths == {"a.json"}

VARIABLES
    notebook,   \* the Notebook value under operation
    now,        \* the reading of chrono::Utc::now()
    issued,     \* how many identifiers Uuid::new_v4 has returned so far
    ret,        \* the last operation called, its arguments and what it returned
    disk,       \* the file system: what each path holds
    saved,      \* per path, the notebook whose save wrote the file's present content
    thread,     \* desktop: per thread, the command it runs and where it is in it
    mutex,      \* desktop: the holder of each Mutex of AppState (0: unlocked)
    file_path,  \* desktop: AppState.file_path
    invoked,    \* desktop: how many commands of a bounded batch were invoked
    owned,      \* a Note its caller owns (let mut note = Note::new(..))
    since,      \* per target, the call of add_link that put it in owned.links (0: none)
    calls       \* how many add_link / remove_link calls were made on owned

hostVars == <<thread, mutex, file_path, invoked>>
noteVars == <<owned, since, calls>>
vars == <<notebook, now, issued, ret, disk, saved, hostVars, noteVars>>

\* Option<T>
None == <<>>
Some(x) == <<x>>

(***************************************************************************)
(* Vec and HashMap helpers.                                                *)
(***************************************************************************)
Range(s) == {s[i] : i \in DOMAIN s}

\* Vec::contains
Contains(s, x) == \E i \in DOMAIN s : s[i] = x

\* Iterator::position: index of the first match, 0 for None
Position(s, x) ==
    IF Contains(s, x) THEN CHOOSE i \in DOMAIN s : s[i] = x /\ \A j \in 1..(i - 1) : s[j] # x
    ELSE 0

\* Vec::remove(pos)
VecRemove(s, pos) == SubSeq(s, 1, pos - 1) \o SubSeq(s, pos + 1, Len(s))

\* HashMap::remove(key), the map that is left
MapRemove(m, k) == [x \in DOMAIN m \ {k} |-> m[x]]

\* HashMap::insert(key, value), the map that results
MapInsert(m, k, v) == [x \in DOMAIN m \cup {k} |-> IF x = k THEN v ELSE m[x]]

EmptyMap == [x \in {} |-> {}]

(***************************************************************************)
(* String: a sequence of characters.                                       *)
(***************************************************************************)
\* char::to_lowercase on the letters used here
LowerChar(c) ==
    CASE c = "A" -> "a"
      [] c = "B" -> "b"
      [] OTHER   -> c

\* str::to_lowercase
ToLowercase(str) == [i \in DOMAIN str |-> LowerChar(str[i])]

\* str::contains(&str): the pattern occurs at some offset
StrContains(str, pat) ==
    \E i \in 0..(Len(str) - Len(pat)) : SubSeq(str, i + 1, i + Len(pat)) = pat

\* the title the tests give a note: "Test"
TestTitle == <<"T", "e", "s", "t">>

(***************************************************************************)
(* Note (note.rs).                                                         *)
(***************************************************************************)
\* Note::new(title): fresh id, empty content, no links, not placed, both
\* timestamps now
NoteNew(id, title, t) ==
    [id |-> id, title |-> title, content |-> <<>>, links |-> <<>>, position |-> "none",
     created_at |-> t, modified_at |-> t]

\* Note::touch
NoteTouch(note, t) == [note EXCEPT !.modified_at = t]

\* a plausible slip: the self-link test is missing
AddLinkNoSelfCheck(note, target, t) ==
    IF ~Contains(note.links, target)
    THEN NoteTouch([note EXCEPT !.links = Append(@, target)], t)
    ELSE note

\* a plausible slip: a target already present is appended again
AddLinkNoDupCheck(note, target, t) ==
    IF target # note.id
    THEN NoteTouch([note EXCEPT !.links = Append(@, target)], t)
    ELSE note

\* Note::add_link
AddLink(note, target, t) ==
    IF ~Contains(note.links, target) /\ target # note.id
    THEN NoteTouch([note EXCEPT !.links = Append(@, target)], t)
    ELSE note

\* Note::remove_link, the note afterwards
RemoveLink(note, target, t) ==
    LET pos == Position(note.links, target)
    IN  IF pos # 0
        THEN NoteTouch([note EXCEPT !.links = VecRemove(@, pos)], t)
        ELSE note

\* a plausible slip: true whenever there was a link to look at
RemoveLinkResultAny(note, target) == note.links # <<>>

\* Note::remove_link, the value returned
RemoveLinkResult(note, target) == Position(note.links, target) # 0

\* Note::with_position
WithPosition(note, p) == [note EXCEPT !.position = p]

\* Note::links_to
LinksTo(note, target) == Contains(note.links, target)

(***************************************************************************)
(* Notebook (notebook.rs).                                                 *)
(***************************************************************************)
\* Notebook::new
NotebookNew(name, t) ==
    [notes |-> EmptyMap, backlinks |-> EmptyMap, name |-> name,
     created_at |-> t, modified_at |-> t]

\* Notebook::touch
Touch(nb, t) == [nb EXCEPT !.modified_at = t]

\* backlinks.entry(key).or_default().insert(v)
BacklinksInsert(bl, key, v) ==
    IF key \in DOMAIN bl THEN [bl EXCEPT ![key] = @ \cup {v}]
    ELSE MapInsert(bl, key, {v})

\* if let Some(set) = backlinks.get_mut(key) { set.remove(v) }
BacklinksRemove(bl, key, v) ==
    IF key \in DOMAIN bl THEN [bl EXCEPT ![key] = @ \ {v}] ELSE bl

\* the loop of add_note: every target of the note gains the note as a source
RECURSIVE IndexLinks(_, _, _)
IndexLinks(bl, links, id) ==
    IF links = <<>> THEN bl
    ELSE IndexLinks(BacklinksInsert(bl, Head(links), id), Tail(links), id)

\* Notebook::add_note
AddNote(nb, note, t) ==
    Touch([nb EXCEPT !.backlinks = IndexLinks(@, note.links, note.id),
                     !.notes = MapInsert(@, note.id, note)], t)

\* a plausible slip: the new note's id is the count of notes plus one, not a
\* fresh one
CreateNoteCountedId(nb, id, title, t) ==
    AddNote(nb, NoteNew(Cardinality(DOMAIN nb.notes) + 1, title, t), t)

\* Notebook::create_note(title), the notebook afterwards; id is the one
\* Uuid::new_v4 returns to Note::new
CreateNoteIn(nb, id, title, t) == AddNote(nb, NoteNew(id, title, t), t)

\* a plausible slip: the lookup does not touch the notebook
GetNoteMutNoTouch(nb, id, t) == nb

\* Notebook::get_note_mut, the notebook afterwards (the handle is notes[id])
GetNoteMut(nb, id, t) == Touch(nb, t)

\* the first loop of remove_note: the removed note leaves its targets' sets
RECURSIVE UnindexLinks(_, _, _)
UnindexLinks(bl, links, id) ==
    IF links = <<>> THEN bl
    ELSE UnindexLinks(BacklinksRemove(bl, Head(links), id), Tail(links), id)

\* the second loop of remove_note: every source still stored drops its link
DropLinksTo(notes, sources, id, t) ==
    [n \in DOMAIN notes |->
        IF n \in sources THEN RemoveLink(notes[n], id, t) ELSE notes[n]]

\* a plausible slip: the sources' links to the removed note are left in place
RemoveNoteKeepSources(nb, id, t) ==
    IF id \in DOMAIN nb.notes
    THEN LET note == nb.notes[id]
             bl1  == UnindexLinks(nb.backlinks, note.links, id)
         IN  Touch([nb EXCEPT !.notes = MapRemove(nb.notes, id),
                              !.backlinks = MapRemove(bl1, id)], t)
    ELSE nb

\* a plausible slip: the removed note stays in the backlink sets of the
\* notes it linked to
RemoveNoteKeepTargets(nb, id, t) ==
    IF id \in DOMAIN nb.notes
    THEN LET notes1  == MapRemove(nb.notes, id)
             sources == IF id \in DOMAIN nb.backlinks THEN nb.backlinks[id] ELSE {}
         IN  Touch([nb EXCEPT !.notes = DropLinksTo(notes1, sources, id, t),
                              !.backlinks = MapRemove(nb.backlinks, id)], t)
    ELSE nb

\* Notebook::remove_note, the notebook afterwards
RemoveNote(nb, id, t) ==
    IF id \in DOMAIN nb.notes
    THEN LET note    == nb.notes[id]
             notes1  == MapRemove(nb.notes, id)
             bl1     == UnindexLinks(nb.backlinks, note.links, id)
             sources == IF id \in DOMAIN bl1 THEN bl1[id] ELSE {}
         IN  Touch([nb EXCEPT !.notes = DropLinksTo(notes1, sources, id, t),
                              !.backlinks = MapRemove(bl1, id)], t)
    ELSE nb

\* Notebook::remove_note, the value returned: Some(note), of which the links
\* are kept here, or None
RemoveNoteResult(nb, id) ==
    IF id \in DOMAIN nb.notes THEN <<"Some", nb.notes[id].links>> ELSE <<"None">>

\* a plausible slip: the two existence tests are made in the other order
LinkNotesResultToFirst(nb, from, to) ==
    IF to \notin DOMAIN nb.notes THEN <<"NoteNotFound", to>>
    ELSE IF from \notin DOMAIN nb.notes THEN <<"NoteNotFound", from>>
    ELSE <<"Ok">>

\* a plausible slip: a link that closes a cycle of two is refused
LinkNotesResultNoCycle(nb, from, to) ==
    IF from \notin DOMAIN nb.notes THEN <<"NoteNotFound", from>>
    ELSE IF to \notin DOMAIN nb.notes THEN <<"NoteNotFound", to>>
    ELSE IF from # to /\ LinksTo(nb.notes[to], from) THEN <<"CircularLink">>
    ELSE <<"Ok">>

\* Notebook::link_notes, the value returned
LinkNotesResult(nb, from, to) ==
    IF from \notin DOMAIN nb.notes THEN <<"NoteNotFound", from>>
    ELSE IF to \notin DOMAIN nb.notes THEN <<"NoteNotFound", to>>
    ELSE <<"Ok">>

\* a plausible slip: the link is pushed without Note::add_link's tests
LinkNotesPush(nb, from, to, t) ==
    IF LinkNotesResult(nb, from, to) = <<"Ok">>
    THEN Touch([nb EXCEPT !.notes[from] = NoteTouch([@ EXCEPT !.links = Append(@, to)], t),
                          !.backlinks = BacklinksInsert(@, to, from)], t)
    ELSE nb

\* a plausible slip: the notebook is touched before the ids are looked up
LinkNotesTouchFirst(nb, from, to, t) ==
    IF LinkNotesResult(nb, from, to) = <<"Ok">>
    THEN Touch([nb EXCEPT !.notes[from] = AddLink(@, to, t),
                          !.backlinks = BacklinksInsert(@, to, from)], t)
    ELSE Touch(nb, t)

\* Notebook::link_notes, the notebook afterwards
LinkNotes(nb, from, to, t) ==
    IF LinkNotesResult(nb, from, to) = <<"Ok">>
    THEN Touch([nb EXCEPT !.notes[from] = AddLink(@, to, t),
                          !.backlinks = BacklinksInsert(@, to, from)], t)
    ELSE nb

\* Notebook::unlink_notes, the value returned
UnlinkNotesResult(nb, from, to) ==
    IF from \in DOMAIN nb.notes THEN <<"Ok">> ELSE <<"NoteNotFound", from>>

\* a plausible slip: the reverse index is not updated
UnlinkNotesKeepIndex(nb, from, to, t) ==
    IF from \in DOMAIN nb.notes
    THEN Touch([nb EXCEPT !.notes[from] = RemoveLink(@, to, t)], t)
    ELSE nb

\* Notebook::unlink_notes, the notebook afterwards
UnlinkNotes(nb, from, to, t) ==
    IF from \in DOMAIN nb.notes
    THEN Touch([nb EXCEPT !.notes[from] = RemoveLink(@, to, t),
                          !.backlinks = BacklinksRemove(@, to, from)], t)
    ELSE nb

\* Notebook::get_backlinks (a Vec in no particular order: its set of members)
GetBacklinks(nb, id) == IF id \in DOMAIN nb.backlinks THEN nb.backlinks[id] ELSE {}

\* Notebook::search_by_title (a Vec in the map's iteration order: the set of
\* the ids of the notes it holds)
SearchByTitle(nb, query) ==
    LET query_lower == ToLowercase(query)
    IN  {n \in DOMAIN nb.notes : StrContains(ToLowercase(nb.notes[n].title), query_lower)}

\* Notebook::search_by_content
SearchByContent(nb, query) ==
    LET query_lower == ToLowercase(query)
    IN  {n \in DOMAIN nb.notes : StrContains(ToLowercase(nb.notes[n].content), query_lower)}

\* a plausible slip: the content is not looked at
SearchTitleOnly(nb, query) == SearchByTitle(nb, query)

\* Notebook::search
Search(nb, query) ==
    LET query_lower == ToLowercase(query)
    IN  {n \in DOMAIN nb.notes :
            \/ StrContains(ToLowercase(nb.notes[n].title), query_lower)
            \/ StrContains(ToLowercase(nb.notes[n].content), query_lower)}

\* Notebook::len
NotebookLen(nb) == Cardinality(DOMAIN nb.notes)

(***************************************************************************)
(* The serialized form (serde derive on Note and Notebook, serde_json).    *)
(* A document is the JSON value; a field that is left out is None.         *)
(***************************************************************************)
\* chrono's serde form of DateTime<Utc>: an RFC 3339 string
Rfc3339(t) == <<"rfc3339", t>>
ParseRfc3339(j) == j[2]

\* a set written as a JSON array (serde_json writes the HashSet's members in
\* iteration order; ascending is one such order)
RECURSIVE SetToArray(_)
SetToArray(S) ==
    IF S = {} THEN <<>>
    ELSE LET m == CHOOSE x \in S : \A y \in S : x <= y
         IN  <<m>> \o SetToArray(S \ {m})

\* Serialize for Note: position and links are skipped when None / empty; a
\* coordinate that is NaN or infinite is written by serde_json as null
NoteToJson(note) ==
    [id          |-> note.id,
     title       |-> note.title,
     content     |-> note.content,
     position    |-> CASE note.position = "none"   -> None
                       [] note.position = "finite" -> Some("numbers")
                       [] note.position = "nan"    -> Some("null"),
     created_at  |-> Rfc3339(note.created_at),
     modified_at |-> Rfc3339(note.modified_at),
     links       |-> IF note.links = <<>> THEN None ELSE Some(note.links)]

\* Serialize for Notebook: every field is written, backlinks included
NotebookToJson(nb) ==
    [notes       |-> [k \in DOMAIN nb.notes |-> NoteToJson(nb.notes[k])],
     backlinks   |-> Some([k \in DOMAIN nb.backlinks |-> SetToArray(nb.backlinks[k])]),
     name        |-> nb.name,
     created_at  |-> Rfc3339(nb.created_at),
     modified_at |-> Rfc3339(nb.modified_at)]

\* Deserialize for Note fails on a null where an f64 is expected
NoteJsonOk(j) == j.position # Some("null")

\* Deserialize for Note: a missing position is None, missing links are empty
NoteFromJson(j) ==
    [id          |-> j.id,
     title       |-> j.title,
     content     |-> j.content,
     links       |-> IF j.links = None THEN <<>> ELSE j.links[1],
     position    |-> IF j.position = None THEN "none" ELSE "finite",
     created_at  |-> ParseRfc3339(j.created_at),
     modified_at |-> ParseRfc3339(j.modified_at)]

\* Deserialize for Notebook: #[serde(default)] makes a missing backlinks
\* field the empty map; each array is collected into a HashSet
NotebookFromJson(doc) ==
    IF \E k \in DOMAIN doc.notes : ~NoteJsonOk(doc.notes[k])
    THEN <<"Err", "Json">>
    ELSE <<"Ok",
           [notes       |-> [k \in DOMAIN doc.notes |-> NoteFromJson(doc.notes[k])],
            backlinks   |-> IF doc.backlinks = None THEN EmptyMap
                            ELSE [k \in DOMAIN doc.backlinks[1] |-> Range(doc.backlinks[1][k])],
            name        |-> doc.name,
            created_at  |-> ParseRfc3339(doc.created_at),
            modified_at |-> ParseRfc3339(doc.modified_at)]>>

(***************************************************************************)
(* Files and JsonStorage (storage.rs).  A path holds nothing, UTF-8 text   *)
(* (a JSON document, or text that serde_json cannot parse), or bytes that  *)
(* are not UTF-8.                                                          *)
(***************************************************************************)
NoFile         == [kind |-> "absent", json |-> None]
TextFile(json) == [kind |-> "text", json |-> json]
BytesFile      == [kind |-> "bytes", json |-> None]

\* Path::exists
Exists(fs, path) == fs[path].kind # "absent"

\* std::fs::read_to_string: an io::Error when the file cannot be read
\* (readable is the environment's part: permissions, the device) or does not
\* hold UTF-8
ReadToString(fs, path, readable) ==
    IF readable /\ fs[path].kind = "text" THEN <<"Ok", fs[path].json>> ELSE <<"Err", "Io">>

\* serde_json::from_str::<Notebook>
FromStr(json) == IF json = None THEN <<"Err", "Json">> ELSE NotebookFromJson(json[1])

\* a plausible slip: no test that the path exists
LoadNoExistsTest(fs, path, readable) ==
    LET text == ReadToString(fs, path, readable)
    IN  IF text[1] = "Err" THEN text ELSE FromStr(text[2])

\* JsonStorage::load
Load(fs, path, readable) ==
    IF ~Exists(fs, path) THEN <<"Err", "NotFound">>
    ELSE LET text == ReadToString(fs, path, readable)
         IN  IF text[1] = "Err" THEN text ELSE FromStr(text[2])

\* std::fs::write: the file is opened (created or truncated) and the text
\* written to it; the environment decides whether opening fails (nothing
\* changes) or writing fails part-way (a truncated text is left)
FsWrite(fs, path, json, outcome) ==
    CASE outcome = "ok"           -> [fs EXCEPT ![path] = TextFile(Some(json))]
      [] outcome = "open_failed"  -> fs
      [] outcome = "write_failed" -> [fs EXCEPT ![path] = TextFile(None)]

\* JsonStorage::save, the file system afterwards
Save(fs, nb, path, outcome) == FsWrite(fs, path, NotebookToJson(nb), outcome)

\* JsonStorage::save, the value returned
SaveResult(outcome) == IF outcome = "ok" THEN <<"Ok">> ELSE <<"Err", "Io">>

WriteOutcomes == {"ok", "open_failed", "write_failed"}

(***************************************************************************)
(* The callers of the library: the notes they build and the calls they     *)
(* make.                                                                   *)
(***************************************************************************)
\* identifiers a caller can hold: those new_v4 has returned so far
Issued == 1..issued

\* one more add_link or remove_link on each note of S, or none
EditOnce(S, targets, t) ==
    S \cup UNION {{AddLink(n, x, t) : x \in targets \cup {n.id}} : n \in S}
      \cup UNION {{RemoveLink(n, x, t) : x \in targets} : n \in S}

RECURSIVE Edited(_, _, _, _)
Edited(S, targets, t, k) ==
    IF k = 0 THEN S ELSE Edited(EditOnce(S, targets, t), targets, t, k - 1)

\* the notes a caller can own before add_note: a new one (Note::new), a clone
\* of a stored one (get_note(..).clone()), or a note that remove_note handed
\* back earlier (its links are whatever the caller's edits then make them)
OwnedNotes ==
    (IF issued < MaxNotes THEN {NoteNew(issued + 1, TestTitle, now)} ELSE {})
    \cup {notebook.notes[n] : n \in DOMAIN notebook.notes}
    \cup {NoteNew(n, TestTitle, now) : n \in Issued \ DOMAIN notebook.notes}

\* ... after up to MaxEdits calls of add_link / remove_link on it
BuiltNotes == Edited(OwnedNotes, Issued, now, MaxEdits)

\* Note::new(title), as it is or after with_position(x, y) with both
\* coordinates finite or with one of them NaN or infinite, and then up to
\* MaxEdits calls of add_link / remove_link
PlacedNotes ==
    IF issued < MaxNotes
    THEN LET fresh == NoteNew(issued + 1, TestTitle, now)
         IN  Edited({fresh} \cup {WithPosition(fresh, p) : p \in {"finite", "nan"}},
                    Issued, now, MaxEdits)
    ELSE {}

\* the threads on which the desktop runs its commands
Threads == {1, 2}

\* a thread that runs no command; otherwise: the command and its arguments,
\* the statement the thread is at, the notebook storage.load returned to it
\* and the content the destination held when its save opened it
Idle == [at |-> "idle", cmd |-> "", a |-> 0, b |-> 0, path |-> None, loaded |-> None,
         prior |-> None]

\* the ids the desktop's user passes to the commands
HostIds == 1..MaxHostNotes

\* an id string that Uuid::parse_str rejects
InvalidId == 0 - 1

\* the texts the desktop's user types: a new title, a content, a query
NewTitle == <<"A", "b">>
NewContent == <<"b", "A">>
Query == <<"a", "B">>

\* the id of the note its caller owns, and the ids the caller passes to
\* add_link and remove_link on it
OwnId == 0
Targets == 0..MaxNotes

Called(op, a, b, res) == [op |-> op, a |-> a, b |-> b, path |-> "", res |-> res]

Init ==
    /\ now = 0
    /\ issued = 0
    /\ notebook = NotebookNew("Test", now)
    /\ ret = Called("new", 0, 0, <<"Ok">>)
    /\ disk = [p \in Paths |-> NoFile]
    /\ saved = [p \in Paths |-> None]
    /\ thread = [t \in Threads |-> Idle]
    /\ mutex = [notebook |-> 0, file_path |-> 0]
    /\ file_path = None
    /\ invoked = 0
    /\ owned = NoteNew(OwnId, TestTitle, now)
    /\ since = [x \in Targets |-> 0]
    /\ calls = 0

\* notebook.create_note(title)
CreateNote ==
    /\ issued < MaxNotes
    /\ notebook' = CreateNoteIn(notebook, issued + 1, TestTitle, now)
    /\ issued' = issued + 1
    /\ ret' = Called("create_note", issued + 1, 0, <<"Id", issued + 1>>)
    /\ UNCHANGED <<now, disk, saved, hostVars, noteVars>>

\* notebook.add_note(note)
AddNoteCall(note) ==
    /\ notebook' = AddNote(notebook, note, now)
    /\ issued' = IF note.id > issued THEN note.id ELSE issued
    /\ ret' = Called("add_note", note.id, 0, <<"Id", note.id>>)
    /\ UNCHANGED <<now, disk, saved, hostVars, noteVars>>

\* add_note of a note the caller built with add_link / remove_link
AddBuiltNote == \E note \in BuiltNotes : AddNoteCall(note)

\* add_note of a note as Note::new made it
AddNewNote ==
    /\ issued < MaxNotes
    /\ AddNoteCall(NoteNew(issued + 1, TestTitle, now))

\* add_note of a new note that links to a note the notebook does not hold
\* (the caller's own one)
AddLinkedNote ==
    /\ issued < MaxNotes
    /\ AddNoteCall(AddLink(NoteNew(issued + 1, TestTitle, now), OwnId, now))

\* add_note of a new note the caller placed on the canvas
AddPlacedNote == \E note \in PlacedNotes : AddNoteCall(note)

\* notebook.get_note_mut(id), and the caller's use of the handle as in
\* desktop main.rs: a field is assigned and the note is touched
GetNoteMutCall(id) ==
    /\ notebook' =
         LET nb == GetNoteMut(notebook, id, now)
         IN  IF id \in DOMAIN nb.notes
             THEN [nb EXCEPT !.notes[id] = NoteTouch(@, now)]
             ELSE nb
    /\ ret' = Called("get_note_mut", id, 0,
                     IF id \in DOMAIN notebook.notes THEN <<"Some">> ELSE <<"None">>)
    /\ UNCHANGED <<now, issued, disk, saved, hostVars, noteVars>>

UpdateNote == \E id \in NoteId : GetNoteMutCall(id)

\* notebook.remove_note(&id)
RemoveNoteCall(id) ==
    /\ notebook' = RemoveNote(notebook, id, now)
    /\ ret' = Called("remove_note", id, 0, RemoveNoteResult(notebook, id))
    /\ UNCHANGED <<now, issued, disk, saved, hostVars, noteVars>>

DeleteNote == \E id \in NoteId : RemoveNoteCall(id)

\* notebook.link_notes(from, to)
LinkNotesCall(from, to) ==
    /\ notebook' = LinkNotes(notebook, from, to, now)
    /\ ret' = Called("link_notes", from, to, LinkNotesResult(notebook, from, to))
    /\ UNCHANGED <<now, issued, disk, saved, hostVars, noteVars>>

LinkTwo == \E from, to \in NoteId : LinkNotesCall(from, to)

\* notebook.unlink_notes(from, to)
UnlinkNotesCall(from, to) ==
    /\ notebook' = UnlinkNotes(notebook, from, to, now)
    /\ ret' = Called("unlink_notes", from, to, UnlinkNotesResult(notebook, from, to))
    /\ UNCHANGED <<now, issued, disk, saved, hostVars, noteVars>>

UnlinkTwo == \E from, to \in NoteId : UnlinkNotesCall(from, to)

\* storage.save(&notebook, path)
SaveCall(path, outcome) ==
    /\ disk' = Save(disk, notebook, path, outcome)
    /\ saved' = CASE outcome = "ok"           -> [saved EXCEPT ![path] = Some(notebook)]
                  [] outcome = "open_failed"  -> saved
                  [] outcome = "write_failed" -> [saved EXCEPT ![path] = None]
    /\ ret' = [op |-> "save", a |-> 0, b |-> 0, path |-> path, res |-> SaveResult(outcome)]
    /\ UNCHANGED <<notebook, now, issued, hostVars, noteVars>>

SaveTo == \E path \in Paths, outcome \in WriteOutcomes : SaveCall(path, outcome)

\* storage.load(path); a is 1 when the environment lets the file be read
LoadCall(path, readable) ==
    /\ ret' = [op |-> "load", a |-> IF readable THEN 1 ELSE 0, b |-> 0, path |-> path,
               res |-> Load(disk, path, readable)]
    /\ UNCHANGED <<notebook, now, issued, disk, saved, hostVars, noteVars>>

LoadFrom == \E path \in Paths, readable \in BOOLEAN : LoadCall(path, readable)

\* another program removes the file or writes it: text that is no notebook,
\* or bytes that are not UTF-8
ForeignFile ==
    \E path \in Paths, file \in {NoFile, TextFile(None), BytesFile} :
        /\ disk' = [disk EXCEPT ![path] = file]
        /\ saved' = [saved EXCEPT ![path] = None]
        /\ ret' = [op |-> "foreign", a |-> 0, b |-> 0, path |-> path, res |-> <<"Ok">>]
        /\ UNCHANGED <<notebook, now, issued, hostVars, noteVars>>

\* a stored document is edited by hand: its optional backlinks field is
\* taken out (section 6 of the format: backlinks may be left to the loader)
OmitBacklinks ==
    \E path \in Paths :
        /\ disk[path].kind = "text"
        /\ disk[path].json # None
        /\ disk[path].json[1].backlinks # None
        /\ disk' = [disk EXCEPT ![path] = TextFile(Some([disk[path].json[1] EXCEPT !.backlinks = None]))]
        /\ saved' = [saved EXCEPT ![path] = None]
        /\ ret' = [op |-> "edit", a |-> 0, b |-> 0, path |-> path, res |-> <<"Ok">>]
        /\ UNCHANGED <<notebook, now, issued, hostVars, noteVars>>

\* time passes between two calls
Tick ==
    /\ now < MaxTime
    /\ now' = now + 1
    /\ UNCHANGED <<notebook, issued, ret, disk, saved, hostVars, noteVars>>

(***************************************************************************)
(* The desktop application (desktop/src/main.rs): commands run on threads   *)
(* and share AppState behind its two mutexes.                              *)
(***************************************************************************)
\* a plausible slip: the state is shared without a guard that waits
CanLockAlways(m, name) == TRUE

\* Mutex::lock returns once no thread holds the mutex
CanLock(m, name) == m[name] = 0

Lock(m, name, t) == [m EXCEPT ![name] = t]

\* the guards a command holds are dropped when it returns
Unlock(m, t) == [k \in DOMAIN m |-> IF m[k] = t THEN 0 ELSE m[k]]

\* the command's CommandResponse
Response(cmd, res) == [op |-> cmd, a |-> 0, b |-> 0, path |-> "", res |-> res]

\* the command returns: its guards are dropped and its response is sent
Return(t, res) ==
    /\ mutex' = Unlock(mutex, t)
    /\ thread' = [thread EXCEPT ![t] = Idle]
    /\ ret' = Response(thread[t].cmd, res)

\* the commands whose first statement is state.notebook.lock(), with their
\* arguments
NotebookCommands ==
    {[Idle EXCEPT !.cmd = "create_note"], [Idle EXCEPT !.cmd = "get_all_notes"],
     [Idle EXCEPT !.cmd = "search_notes"], [Idle EXCEPT !.cmd = "new_notebook"]}
    \cup {[Idle EXCEPT !.cmd = c, !.a = id] :
            c \in {"get_note", "update_note_title", "update_note_content", "delete_note"},
            id \in HostIds \cup {InvalidId}}
    \cup {[Idle EXCEPT !.cmd = "link_notes", !.a = from, !.b = to] :
            from \in HostIds \cup {InvalidId}, to \in HostIds \cup {InvalidId}}
    \cup {[Idle EXCEPT !.cmd = "save_notebook", !.path = path] :
            path \in {None} \cup {Some(p) : p \in Paths}}

\* a command is invoked and takes the notebook mutex (main.rs:58, 72, 87,
\* 95, 113, 131, 146, 167, 175, 216)
LockNotebook(t) ==
    /\ thread[t].at = "idle"
    /\ CanLock(mutex, "notebook")
    /\ \E c \in NotebookCommands :
          /\ c.cmd = "create_note" => issued < MaxHostNotes
          /\ thread' = [thread EXCEPT ![t] =
                [c EXCEPT !.at = IF c.cmd \in {"save_notebook", "new_notebook"}
                                 THEN "lock_file_path" ELSE "notebook_locked"]]
    /\ mutex' = Lock(mutex, "notebook", t)
    /\ UNCHANGED <<notebook, now, issued, ret, disk, saved, file_path, noteVars, invoked>>

\* create_note(title)
HostCreateNote(t) ==
    /\ thread[t].at = "notebook_locked"
    /\ thread[t].cmd = "create_note"
    /\ notebook' = AddNote(notebook, NoteNew(issued + 1, TestTitle, now), now)
    /\ issued' = issued + 1
    /\ Return(t, <<"Ok">>)
    /\ UNCHANGED <<now, disk, saved, file_path, noteVars, invoked>>

\* get_note(id), get_all_notes(), search_notes(query)
HostRead(t) ==
    /\ thread[t].at = "notebook_locked"
    /\ thread[t].cmd \in {"get_note", "get_all_notes", "search_notes"}
    /\ Return(t, CASE thread[t].cmd = "get_note" ->
                        IF thread[t].a = InvalidId THEN <<"Err", "Invalid note ID">>
                        ELSE IF thread[t].a \in DOMAIN notebook.notes THEN <<"Ok">>
                        ELSE <<"Err", "Note not found">>
                  [] thread[t].cmd = "get_all_notes" -> <<"Ok", DOMAIN notebook.notes>>
                  [] thread[t].cmd = "search_notes" -> <<"Ok", Search(notebook, Query)>>)
    /\ UNCHANGED <<notebook, now, issued, disk, saved, file_path, noteVars, invoked>>

\* update_note_title(id, title), update_note_content(id, content)
HostUpdate(t) ==
    LET id == thread[t].a
        nb == GetNoteMut(notebook, id, now)
    IN  /\ thread[t].at = "notebook_locked"
        /\ thread[t].cmd \in {"update_note_title", "update_note_content"}
        /\ IF id = InvalidId
           THEN /\ Return(t, <<"Err", "Invalid note ID">>)
                /\ UNCHANGED notebook
           ELSE IF id \in DOMAIN notebook.notes
           THEN /\ notebook' =
                     IF thread[t].cmd = "update_note_title"
                     THEN [nb EXCEPT !.notes[id] = NoteTouch([@ EXCEPT !.title = NewTitle], now)]
                     ELSE [nb EXCEPT !.notes[id] = NoteTouch([@ EXCEPT !.content = NewContent], now)]
                /\ Return(t, <<"Ok">>)
           ELSE /\ notebook' = nb
                /\ Return(t, <<"Err", "Note not found">>)
        /\ UNCHANGED <<now, issued, disk, saved, file_path, noteVars, invoked>>

\* delete_note(id)
HostDeleteNote(t) ==
    LET id == thread[t].a
    IN  /\ thread[t].at = "notebook_locked"
        /\ thread[t].cmd = "delete_note"
        /\ IF id = InvalidId
           THEN /\ Return(t, <<"Err", "Invalid note ID">>)
                /\ UNCHANGED notebook
           ELSE /\ notebook' = RemoveNote(notebook, id, now)
                /\ Return(t, IF RemoveNoteResult(notebook, id)[1] = "Some" THEN <<"Ok">>
                              ELSE <<"Err", "Note not found">>)
        /\ UNCHANGED <<now, issued, disk, saved, file_path, noteVars, invoked>>

\* link_notes(from_id, to_id)
HostLinkNotes(t) ==
    LET from == thread[t].a
        to   == thread[t].b
    IN  /\ thread[t].at = "notebook_locked"
        /\ thread[t].cmd = "link_notes"
        /\ IF from = InvalidId
           THEN /\ Return(t, <<"Err", "Invalid source note ID">>)
                /\ UNCHANGED notebook
           ELSE IF to = InvalidId
           THEN /\ Return(t, <<"Err", "Invalid target note ID">>)
                /\ UNCHANGED notebook
           ELSE /\ notebook' = LinkNotes(notebook, from, to, now)
                /\ Return(t, LET res == LinkNotesResult(notebook, from, to)
                              IN  IF res = <<"Ok">> THEN res ELSE <<"Err">> \o res)
        /\ UNCHANGED <<now, issued, disk, saved, file_path, noteVars, invoked>>

\* load_notebook(path) is invoked: no lock is taken before storage.load
InvokeLoad(t) ==
    /\ thread[t].at = "idle"
    /\ \E path \in Paths :
          thread' = [thread EXCEPT ![t] =
                        [Idle EXCEPT !.cmd = "load_notebook", !.at = "load", !.path = Some(path)]]
    /\ UNCHANGED <<notebook, now, issued, ret, disk, saved, mutex, file_path, noteVars, invoked>>

\* load_notebook that remembers its path before it reads the file, as
\* save_notebook does before it writes
HostLoadPathFirst(t) ==
    /\ thread[t].at = "load"
    /\ file_path' = thread[t].path
    /\ \E readable \in BOOLEAN :
          LET res == Load(disk, thread[t].path[1], readable)
          IN  IF res[1] = "Ok"
              THEN /\ thread' = [thread EXCEPT ![t].at = "lock_notebook",
                                                ![t].loaded = Some(res[2])]
                   /\ UNCHANGED <<mutex, ret>>
              ELSE Return(t, res)
    /\ UNCHANGED <<notebook, now, issued, disk, saved, noteVars, invoked>>

\* load_notebook: state.storage.load(&path) (main.rs:201)
HostLoad(t) ==
    /\ thread[t].at = "load"
    /\ \E readable \in BOOLEAN :
          LET res == Load(disk, thread[t].path[1], readable)
          IN  IF res[1] = "Ok"
              THEN /\ thread' = [thread EXCEPT ![t].at = "lock_notebook",
                                                ![t].loaded = Some(res[2])]
                   /\ UNCHANGED <<mutex, ret>>
              ELSE Return(t, res)
    /\ UNCHANGED <<notebook, now, issued, disk, saved, file_path, noteVars, invoked>>

\* load_notebook: state.notebook.lock() (main.rs:203)
LoadLockNotebook(t) ==
    /\ thread[t].at = "lock_notebook"
    /\ CanLock(mutex, "notebook")
    /\ mutex' = Lock(mutex, "notebook", t)
    /\ thread' = [thread EXCEPT ![t].at = "lock_file_path"]
    /\ UNCHANGED <<notebook, now, issued, ret, disk, saved, file_path, noteVars, invoked>>

\* state.file_path.lock() in save_notebook, load_notebook and new_notebook
\* (main.rs:176, 204, 217)
LockFilePath(t) ==
    /\ thread[t].at = "lock_file_path"
    /\ CanLock(mutex, "file_path")
    /\ mutex' = Lock(mutex, "file_path", t)
    /\ thread' = [thread EXCEPT ![t].at = "file_path_locked"]
    /\ UNCHANGED <<notebook, now, issued, ret, disk, saved, file_path, noteVars, invoked>>

\* load_notebook: the loaded notebook and the path are stored (main.rs:205-207)
HostLoaded(t) ==
    /\ thread[t].at = "file_path_locked"
    /\ thread[t].cmd = "load_notebook"
    /\ notebook' = thread[t].loaded[1]
    /\ file_path' = thread[t].path
    /\ Return(t, <<"Ok">>)
    /\ UNCHANGED <<now, issued, disk, saved, noteVars, invoked>>

\* new_notebook(name) (main.rs:218-220)
HostNewNotebook(t) ==
    /\ thread[t].at = "file_path_locked"
    /\ thread[t].cmd = "new_notebook"
    /\ notebook' = NotebookNew("Untitled", now)
    /\ file_path' = None
    /\ Return(t, <<"Ok">>)
    /\ UNCHANGED <<now, issued, disk, saved, noteVars, invoked>>

\* File::create, the first half of std::fs::write: the file exists and is
\* empty
FsCreate(fs, path) == [fs EXCEPT ![path] = TextFile(None)]

\* save_notebook: the path is chosen (main.rs:178-188) and storage.save
\* serializes the notebook and opens the destination
HostSaveOpen(t) ==
    LET save_path == IF thread[t].path # None THEN thread[t].path ELSE file_path
    IN  /\ thread[t].at = "file_path_locked"
        /\ thread[t].cmd = "save_notebook"
        /\ IF save_path = None
           THEN /\ Return(t, <<"Err", "No file path specified">>)
                /\ UNCHANGED <<file_path, disk, saved>>
           ELSE /\ file_path' = save_path
                /\ \/ /\ disk' = FsCreate(disk, save_path[1])
                      /\ saved' = [saved EXCEPT ![save_path[1]] = None]
                      /\ thread' = [thread EXCEPT ![t].at = "writing",
                                                   ![t].path = save_path,
                                                   ![t].prior = Some(disk[save_path[1]])]
                      /\ UNCHANGED <<mutex, ret>>
                   \/ /\ Return(t, SaveResult("open_failed"))
                      /\ UNCHANGED <<disk, saved>>
        /\ UNCHANGED <<notebook, now, issued, noteVars, invoked>>

\* save_notebook: the text is written, or the write fails part-way, and the
\* command returns (main.rs:190-193)
HostSaveWrite(t) ==
    /\ thread[t].at = "writing"
    /\ \E outcome \in {"ok", "write_failed"} :
          /\ disk' = Save(disk, notebook, thread[t].path[1], outcome)
          /\ saved' = [saved EXCEPT ![thread[t].path[1]] =
                            IF outcome = "ok" THEN Some(notebook) ELSE None]
          /\ Return(t, SaveResult(outcome))
    /\ UNCHANGED <<notebook, now, issued, file_path, noteVars, invoked>>

\* the commands of the desktop, each on any thread
NextHost ==
    \E t \in Threads :
        \/ LockNotebook(t)
        \/ HostCreateNote(t)
        \/ HostRead(t)
        \/ HostUpdate(t)
        \/ HostDeleteNote(t)
        \/ HostLinkNotes(t)
        \/ InvokeLoad(t)
        \/ HostLoad(t)
        \/ LoadLockNotebook(t)
        \/ LockFilePath(t)
        \/ HostLoaded(t)
        \/ HostNewNotebook(t)
        \/ HostSaveOpen(t)
        \/ HostSaveWrite(t)

\* AppState::default()
InitHost ==
    /\ now = 0
    /\ issued = 0
    /\ notebook = NotebookNew("Untitled", now)
    /\ ret = Called("new", 0, 0, <<"Ok">>)
    /\ disk = [p \in Paths |-> NoFile]
    /\ saved = [p \in Paths |-> None]
    /\ thread = [t \in Threads |-> Idle]
    /\ mutex = [notebook |-> 0, file_path |-> 0]
    /\ file_path = None
    /\ invoked = 0
    /\ owned = NoteNew(OwnId, TestTitle, now)
    /\ since = [x \in Targets |-> 0]
    /\ calls = 0

SpecHost == InitHost /\ [][NextHost]_vars

\* a command that locks file_path before notebook
LockOrderNewReversed(cmd) ==
    IF cmd = "new_notebook" THEN <<"file_path", "notebook">>
    ELSE IF cmd \in {"save_notebook", "load_notebook"} THEN <<"notebook", "file_path">>
    ELSE <<"notebook">>

\* the mutexes a command locks, in the order of its lock() calls: notebook
\* alone in the note commands (main.rs:58, 72, 87, 95, 113, 131, 146, 167),
\* notebook then file_path in save_notebook (175-176), load_notebook
\* (203-204) and new_notebook (216-217)
LockOrder(cmd) ==
    IF cmd \in {"save_notebook", "load_notebook", "new_notebook"}
    THEN <<"notebook", "file_path">>
    ELSE <<"notebook">>

\* where a thread stands while it waits in lock() for the named mutex
Waiting(name) == IF name = "notebook" THEN "lock_notebook" ELSE "lock_file_path"

\* the mutexes whose guard the thread holds
Held(m, t) == {k \in DOMAIN m : m[k] = t}

\* every command the frontend can invoke (main.rs:229-240)
Commands ==
    NotebookCommands
    \cup {[Idle EXCEPT !.cmd = "load_notebook", !.path = Some(path)] : path \in Paths}

\* the frontend invokes a command on a thread of the runtime; the command
\* runs up to its first lock() call, or up to storage.load in load_notebook
\* (main.rs:201)
Invoke(t) ==
    /\ thread[t].at = "idle"
    /\ invoked < MaxInvocations
    /\ invoked' = invoked + 1
    /\ \E c \in Commands :
          /\ c.cmd = "create_note" => issued < MaxHostNotes
          /\ thread' = [thread EXCEPT ![t] =
                [c EXCEPT !.at = IF c.cmd = "load_notebook" THEN "load"
                                 ELSE Waiting(LockOrder(c.cmd)[1])]]
    /\ UNCHANGED <<notebook, now, issued, ret, disk, saved, mutex, file_path, noteVars>>

\* Mutex::lock() returns: the thread takes the mutex it waits for and goes on
\* to its next lock() call, or to the body of the command when it holds
\* every mutex of the command
Acquire(t) ==
    /\ thread[t].at \in {"lock_notebook", "lock_file_path"}
    /\ LET name == IF thread[t].at = "lock_notebook" THEN "notebook" ELSE "file_path"
           order == LockOrder(thread[t].cmd)
           held == Held(mutex, t) \cup {name}
           rest == SelectSeq(order, LAMBDA k : k \notin held)
       IN  /\ CanLock(mutex, name)
           /\ mutex' = Lock(mutex, name, t)
           /\ thread' = [thread EXCEPT ![t].at =
                 IF rest # <<>> THEN Waiting(rest[1])
                 ELSE IF Len(order) = 2 THEN "file_path_locked" ELSE "notebook_locked"]
    /\ UNCHANGED <<notebook, now, issued, ret, disk, saved, file_path, noteVars, invoked>>

\* the steps of a command between its invocation and its return
Continue(t) ==
    \/ Acquire(t)
    \/ HostCreateNote(t)
    \/ HostRead(t)
    \/ HostUpdate(t)
    \/ HostDeleteNote(t)
    \/ HostLinkNotes(t)
    \/ HostLoad(t)
    \/ HostLoaded(t)
    \/ HostNewNotebook(t)
    \/ HostSaveOpen(t)
    \/ HostSaveWrite(t)

\* a batch of at most MaxInvocations commands, invoked on concurrent threads
NextBatch ==
    \E t \in Threads :
        \/ Invoke(t)
        \/ Acquire(t)
        \/ HostCreateNote(t)
        \/ HostRead(t)
        \/ HostUpdate(t)
        \/ HostDeleteNote(t)
        \/ HostLinkNotes(t)
        \/ HostLoad(t)
        \/ HostLoaded(t)
        \/ HostNewNotebook(t)
        \/ HostSaveOpen(t)
        \/ HostSaveWrite(t)

\* the runtime's threads are scheduled by the operating system: a thread that
\* can take a step, and stays able to, takes it
SpecBatch == InitHost /\ [][NextBatch]_vars /\ \A t \in Threads : WF_vars(Continue(t))

(***************************************************************************)
(* Searching (notebook.rs test_search): notes are created with a title,    *)
(* given a content through get_note_mut, and searched.                     *)
(***************************************************************************)
\* the titles, contents and queries of the callers
Texts == {<<>>, <<"a">>, <<"A", "b">>, <<"b", "A", "B">>}

SearchOps == {"search_by_title", "search_by_content", "search"}

\* notebook.create_note(title)
CreateTitled ==
    \E title \in Texts :
        /\ issued < MaxNotes
        /\ notebook' = CreateNoteIn(notebook, issued + 1, title, now)
        /\ issued' = issued + 1
        /\ ret' = Called("create_note", issued + 1, 0, <<"Id", issued + 1>>)
        /\ UNCHANGED <<now, disk, saved, hostVars, noteVars>>

\* if let Some(note) = notebook.get_note_mut(&id) { note.content = .. }
SetContent ==
    \E id \in NoteId, content \in Texts :
        /\ notebook' =
             LET nb == GetNoteMut(notebook, id, now)
             IN  IF id \in DOMAIN nb.notes
                 THEN [nb EXCEPT !.notes[id].content = content]
                 ELSE nb
        /\ ret' = Called("get_note_mut", id, 0,
                         IF id \in DOMAIN notebook.notes THEN <<"Some">> ELSE <<"None">>)
        /\ UNCHANGED <<now, issued, disk, saved, hostVars, noteVars>>

\* notebook.search_by_title(query), search_by_content(query), search(query)
SearchCall ==
    \E op \in SearchOps, query \in Texts :
        /\ ret' = [op |-> op, a |-> 0, b |-> 0, path |-> "",
                   res |-> <<"Found", query,
                             CASE op = "search_by_title"   -> SearchByTitle(notebook, query)
                               [] op = "search_by_content" -> SearchByContent(notebook, query)
                               [] op = "search"            -> Search(notebook, query)>>]
        /\ UNCHANGED <<notebook, now, issued, disk, saved, hostVars, noteVars>>

NextSearch ==
    \/ CreateTitled
    \/ SetContent
    \/ SearchCall

SpecSearch == Init /\ [][NextSearch]_vars

\* the graph operations of the notebook
Next ==
    \/ CreateNote
    \/ AddBuiltNote
    \/ UpdateNote
    \/ DeleteNote
    \/ LinkTwo
    \/ UnlinkTwo

Spec == Init /\ [][Next]_vars

(***************************************************************************)
(* A note in its caller's hands (note.rs test_add_link, test_remove_link). *)
(***************************************************************************)
\* note.add_link(target)
NoteAddLink ==
    \E target \in Targets :
        /\ calls < MaxCalls
        /\ owned' = AddLink(owned, target, now)
        /\ since' = IF target # owned.id /\ since[target] = 0
                    THEN [since EXCEPT ![target] = calls + 1]
                    ELSE since
        /\ calls' = calls + 1
        /\ ret' = Called("add_link", target, 0, <<"Unit">>)
        /\ UNCHANGED <<notebook, now, issued, disk, saved, hostVars>>

\* note.remove_link(&target)
NoteRemoveLink ==
    \E target \in Targets :
        /\ calls < MaxCalls
        /\ owned' = RemoveLink(owned, target, now)
        /\ since' = [since EXCEPT ![target] = 0]
        /\ calls' = calls + 1
        /\ ret' = Called("remove_link", target, 0,
                         IF RemoveLinkResult(owned, target) THEN <<"true">> ELSE <<"false">>)
        /\ UNCHANGED <<notebook, now, issued, disk, saved, hostVars>>

NextNote ==
    \/ NoteAddLink
    \/ NoteRemoveLink
    \/ Tick

SpecNote == Init /\ [][NextNote]_vars

\* a notebook built from empty by create_note, link_notes, unlink_notes and
\* remove_note alone
NextGraph ==
    \/ CreateNote
    \/ DeleteNote
    \/ LinkTwo
    \/ UnlinkTwo

SpecGraph == Init /\ [][NextGraph]_vars

\* creating notes beside notes that came with a link
NextLinked ==
    \/ CreateNote
    \/ AddLinkedNote
    \/ DeleteNote
    \/ LinkTwo
    \/ UnlinkTwo

SpecLinked == Init /\ [][NextLinked]_vars

\* the graph operations of the notebook as time passes
NextClock ==
    \/ CreateNote
    \/ AddNewNote
    \/ UpdateNote
    \/ DeleteNote
    \/ LinkTwo
    \/ UnlinkTwo
    \/ Tick

SpecClock == Init /\ [][NextClock]_vars

\* building a notebook, saving it and loading it, beside other writers
NextStorage ==
    \/ AddPlacedNote
    \/ SaveTo
    \/ LoadFrom
    \/ ForeignFile
    \/ OmitBacklinks
    \/ Tick

SpecStorage == Init /\ [][NextStorage]_vars

(***************************************************************************)
(* Properties.                                                             *)
(***************************************************************************)
Stored == DOMAIN notebook.notes

\* the targets of a stored note
Links(nb, n) == Range(nb.notes[n].links)

\* C1: after every public Notebook operation, for all notes S and T in the
\* notebook, T is in S.links if and only if S is in backlinks[T].
C1_LinksMirrorBacklinks ==
    \A S, T \in Stored : (T \in Links(notebook, S)) <=> (S \in GetBacklinks(notebook, T))

\* C2: after remove_note(N) of a present note N, no remaining note has N in
\* its links, get_backlinks(N) is empty, N is in backlinks[T] for no T that N
\* linked to, and the notebook holds exactly one note fewer.
C2_RemoveNoteCleans ==
    [][(ret'.op = "remove_note" /\ ret'.res[1] = "Some") =>
        LET N    == ret'.a
            gone == notebook.notes[N]
        IN  /\ \A n \in DOMAIN notebook'.notes : N \notin Links(notebook', n)
            /\ GetBacklinks(notebook', N) = {}
            /\ \A T \in Range(gone.links) : N \notin GetBacklinks(notebook', T)
            /\ NotebookLen(notebook') = NotebookLen(notebook) - 1]_vars

\* a present note with outgoing links was removed and another note remains
C2_Witness ==
    /\ ret.op = "remove_note"
    /\ ret.res[1] = "Some"
    /\ ret.res[2] # <<>>
    /\ NotebookLen(notebook) >= 1

\* C3: link_notes is idempotent: for present from and to (from = to
\* included) a second link_notes(from, to) leaves the links of every note and
\* the backlinks index as the first call left them.
C3_LinkNotesIdempotent ==
    \A from, to \in Stored :
        LET once  == LinkNotes(notebook, from, to, now)
            twice == LinkNotes(once, from, to, now)
        IN  /\ twice.backlinks = once.backlinks
            /\ DOMAIN twice.notes = DOMAIN once.notes
            /\ \A n \in DOMAIN once.notes : twice.notes[n].links = once.notes[n].links

\* link_notes(from, to) has just succeeded with the link in place
C3_Witness ==
    /\ ret.op = "link_notes"
    /\ ret.res = <<"Ok">>
    /\ ret.a # ret.b
    /\ ret.b \in Links(notebook, ret.a)
    /\ ret.a \in GetBacklinks(notebook, ret.b)

\* C4: no note of the notebook has its own id in its links, whatever
\* sequence of add_link, link_notes (link_notes(a, a) included), unlink_notes,
\* add_note and remove_note led there.
C4_NoSelfLink ==
    \A n \in Stored : n \notin Links(notebook, n)

\* link_notes(a, a) was called on a present note and returned Ok
C4_Witness ==
    /\ ret.op = "link_notes"
    /\ ret.a = ret.b
    /\ ret.res = <<"Ok">>

\* C5 as stated: link_notes returns Ok exactly when both ids are present,
\* NoteNotFound otherwise, and NoteNotFound(to) whenever to is absent.
C5_ErrorNamesTo ==
    ret.op = "link_notes" =>
        /\ (ret.res = <<"Ok">>) <=> (ret.a \in Stored /\ ret.b \in Stored)
        /\ ret.res # <<"Ok">> => ret.res[1] = "NoteNotFound"
        /\ ret.b \notin Stored => ret.res = <<"NoteNotFound", ret.b>>

\* C5 amended: link_notes returns Ok exactly when both ids are present,
\* NoteNotFound otherwise: NoteNotFound(from) whenever from is absent, and
\* NoteNotFound(to) when from is present and to is absent.
C5_ErrorNamesFirstAbsent ==
    ret.op = "link_notes" =>
        /\ (ret.res = <<"Ok">>) <=> (ret.a \in Stored /\ ret.b \in Stored)
        /\ ret.res # <<"Ok">> => ret.res[1] = "NoteNotFound"
        /\ ret.a \notin Stored => ret.res = <<"NoteNotFound", ret.a>>
        /\ (ret.a \in Stored /\ ret.b \notin Stored) => ret.res = <<"NoteNotFound", ret.b>>

\* link_notes was called with two different absent ids
C5_Witness ==
    /\ ret.op = "link_notes"
    /\ ret.a # ret.b
    /\ ret.a \notin Stored
    /\ ret.b \notin Stored
    /\ ret.res = <<"NoteNotFound", ret.a>>

\* C6: unlink_notes(from, to) fails with NoteNotFound(from) exactly when from
\* is absent and succeeds otherwise, also when to is absent or there was no
\* such link; after success to is not in from.links, from is not in
\* backlinks[to], and no other note's links and no other backlink set changed.
C6_UnlinkNotes ==
    [][ret'.op = "unlink_notes" =>
        LET from == ret'.a
            to   == ret'.b
        IN  /\ (ret'.res = <<"NoteNotFound", from>>) <=> (from \notin Stored)
            /\ (ret'.res = <<"Ok">>) <=> (from \in Stored)
            /\ ret'.res = <<"Ok">> =>
                /\ to \notin Links(notebook', from)
                /\ from \notin GetBacklinks(notebook', to)
                /\ DOMAIN notebook'.notes = Stored
                /\ \A n \in Stored \ {from} :
                       notebook'.notes[n].links = notebook.notes[n].links
                /\ DOMAIN notebook'.backlinks = DOMAIN notebook.backlinks
                /\ \A k \in DOMAIN notebook.backlinks \ {to} :
                       notebook'.backlinks[k] = notebook.backlinks[k]]_vars

\* unlink_notes succeeded although to is not a note of the notebook
C6_Witness ==
    /\ ret.op = "unlink_notes"
    /\ ret.res = <<"Ok">>
    /\ ret.b \notin Stored

\* C7: after add_note(note), for every id T, note.id is in backlinks[T] if and
\* only if T is in the links of the note now stored under note.id.
C7_AddNoteIndexConsistent ==
    ret.op = "add_note" =>
        \A T \in NoteId :
            (ret.a \in GetBacklinks(notebook, T)) <=> (T \in Links(notebook, ret.a))

\* the link/backlink invariant of a notebook value
Mirrors(nb) ==
    \A S, T \in DOMAIN nb.notes : (T \in Links(nb, S)) <=> (S \in GetBacklinks(nb, T))

\* the same notes, the same links in the same order, the same backlinks, the
\* same name and timestamps
SameNotebook(x, y) ==
    /\ DOMAIN x.notes = DOMAIN y.notes
    /\ \A n \in DOMAIN x.notes :
           /\ x.notes[n].id = y.notes[n].id
           /\ x.notes[n].title = y.notes[n].title
           /\ x.notes[n].content = y.notes[n].content
           /\ x.notes[n].links = y.notes[n].links
           /\ x.notes[n].created_at = y.notes[n].created_at
           /\ x.notes[n].modified_at = y.notes[n].modified_at
    /\ \A n \in NoteId : GetBacklinks(x, n) = GetBacklinks(y, n)
    /\ x.name = y.name
    /\ x.created_at = y.created_at
    /\ x.modified_at = y.modified_at

\* C8: round trip: a notebook saved to a path and loaded from that path comes
\* back with the same notes, links, backlinks, name and timestamps.
C8_RoundTrip ==
    (ret.op = "load" /\ ret.a = 1 /\ saved[ret.path] # None) =>
        /\ ret.res[1] = "Ok"
        /\ SameNotebook(ret.res[2], saved[ret.path][1])

\* C9: the notebook a successful load returns satisfies the link/backlink
\* invariant, also when the document leaves the backlinks field out while its
\* notes carry links.
C9_LoadedMirrors ==
    (ret.op = "load" /\ ret.res[1] = "Ok") => Mirrors(ret.res[2])

\* the file holds text that deserializes to a Notebook
ValidContent(file) ==
    /\ file.kind = "text"
    /\ file.json # None
    /\ \A k \in DOMAIN file.json[1].notes : file.json[1].notes[k].position # Some("null")

\* what load returns for valid content: a notebook, and the one whose save
\* wrote the content when a save did
ReturnsSaved(path) ==
    /\ ret.res[1] = "Ok"
    /\ saved[path] # None => ret.res[2] = saved[path][1]

\* C10 as stated: load fails with NotFound when the destination does not
\* exist, with a format error when it exists but its content is not a valid
\* serialized notebook, and otherwise returns the notebook last saved there
\* (taken with an environment that lets every file be read).
C10_LoadThreeWay ==
    (ret.op = "load" /\ ret.a = 1) =>
        /\ ~Exists(disk, ret.path) => ret.res = <<"Err", "NotFound">>
        /\ (Exists(disk, ret.path) /\ ~ValidContent(disk[ret.path])) =>
               ret.res = <<"Err", "Json">>
        /\ (Exists(disk, ret.path) /\ ValidContent(disk[ret.path])) =>
               ReturnsSaved(ret.path)

\* the destination can be read as UTF-8 text
ReadsAsText == ret.a = 1 /\ disk[ret.path].kind = "text"

\* C10 amended: load fails with NotFound when the destination does not exist;
\* when it exists but cannot be read as UTF-8 text (a read error, or bytes
\* that are not UTF-8) it fails with an Io error; when its text is not a valid
\* serialized notebook it fails with a format error; otherwise it returns the
\* notebook last saved there.
C10_LoadFourWay ==
    ret.op = "load" =>
        /\ ~Exists(disk, ret.path) => ret.res = <<"Err", "NotFound">>
        /\ (Exists(disk, ret.path) /\ ~ReadsAsText) => ret.res = <<"Err", "Io">>
        /\ (ReadsAsText /\ ~ValidContent(disk[ret.path])) => ret.res = <<"Err", "Json">>
        /\ (ReadsAsText /\ ValidContent(disk[ret.path])) => ReturnsSaved(ret.path)

\* load was called on a file of bytes that are not UTF-8 and failed with Io
C10_Witness ==
    /\ ret.op = "load"
    /\ ret.a = 1
    /\ disk[ret.path].kind = "bytes"
    /\ ret.res = <<"Err", "Io">>

\* C11: a save is all-or-nothing: when save returns Ok the destination holds
\* the complete new serialization, and when it returns an error the
\* destination holds exactly the content it held before the save started.
C11_SaveAllOrNothing ==
    [][\A path \in Paths, outcome \in WriteOutcomes :
          SaveCall(path, outcome) =>
              IF SaveResult(outcome) = <<"Ok">>
              THEN disk'[path] = TextFile(Some(NotebookToJson(notebook)))
              ELSE disk'[path] = disk[path]]_vars

\* C12: a reader that loads a destination while a save to it is in progress
\* observes the complete prior content or the complete new content: the file
\* load_notebook reads (the read itself succeeding) while save_notebook is
\* between opening and finishing the write is the one the save found there or
\* the one it is writing.
C12_NoPartialRead ==
    [][\A t, u \in Threads :
          (/\ HostLoad(t)
           /\ thread'[t].at = "lock_notebook" \/ ret'.res = <<"Err", "Json">>
           /\ thread[u].at = "writing"
           /\ thread[u].path = thread[t].path)
          => disk[thread[t].path[1]] \in
                 {thread[u].prior[1], TextFile(Some(NotebookToJson(notebook)))}]_vars

\* pat occurs in str: str is some text, then pat, then some text
Occurs(pat, str) ==
    \E i \in 0..Len(str), j \in 0..Len(str) : i <= j /\ SubSeq(str, i + 1, j) = pat

\* the notes whose lower-cased field f contains the lower-cased query
Matching(nb, f, query) ==
    {n \in DOMAIN nb.notes : Occurs(ToLowercase(query), ToLowercase(nb.notes[n][f]))}

\* C13: search_by_title, search_by_content and search return exactly the
\* notes whose lower-cased title, content, or title-or-content contains the
\* lower-cased query; so search(q) is the union of the other two, an empty
\* query returns every note, and none of the three changes the notebook.
C13_SearchExact ==
    [][ret'.op \in SearchOps =>
        LET query == ret'.res[2]
            found == ret'.res[3]
            title == Matching(notebook, "title", query)
            content == Matching(notebook, "content", query)
        IN  /\ ret'.op = "search_by_title" => found = title
            /\ ret'.op = "search_by_content" => found = content
            /\ ret'.op = "search" =>
                /\ found = title \cup content
                /\ found = SearchByTitle(notebook, query) \cup SearchByContent(notebook, query)
            /\ query = <<>> => found = DOMAIN notebook.notes
            /\ notebook' = notebook]_vars

\* search(q), q with a capital letter, found one note by its content alone and
\* left another note out
C13_Witness ==
    /\ ret.op = "search"
    /\ \E i \in DOMAIN ret.res[2] : ret.res[2][i] = "B"
    /\ \E n \in ret.res[3] : n \notin SearchByTitle(notebook, ret.res[2])
    /\ ret.res[3] # DOMAIN notebook.notes

\* the last call was a mutating notebook operation and it succeeded
MutatedOk(r) ==
    \/ r.op \in {"create_note", "add_note"}
    \/ r.op = "get_note_mut" /\ r.res = <<"Some">>
    \/ r.op = "remove_note" /\ r.res[1] = "Some"
    \/ r.op \in {"link_notes", "unlink_notes"} /\ r.res = <<"Ok">>

\* C14: with a clock that never goes back, the notebook's modified_at never
\* decreases and is at least created_at, created_at never changes, and every
\* mutating notebook operation that succeeds sets modified_at to the current
\* time.
C14_Timestamps ==
    [][/\ notebook'.modified_at >= notebook.modified_at
       /\ notebook'.modified_at >= notebook'.created_at
       /\ notebook'.created_at = notebook.created_at
       /\ (now' = now /\ MutatedOk(ret')) => notebook'.modified_at = now]_vars

\* some time after the notebook was made, get_note_mut found a note
C14_Witness ==
    /\ ret.op = "get_note_mut"
    /\ ret.res = <<"Some">>
    /\ now > notebook.created_at
    /\ notebook.modified_at = now

\* the thread is between taking the notebook mutex and returning
Inside(th) == th.at \in {"notebook_locked", "lock_file_path", "file_path_locked", "writing"}

\* C15: every command reads or changes the shared notebook only while it
\* holds the notebook mutex: a thread inside the notebook is the holder, so at
\* most one is inside, and the notebook changes only by a step of the holder.
C15_NotebookMutex ==
    [][/\ \A t \in Threads : Inside(thread'[t]) => mutex'.notebook = t
       /\ Cardinality({t \in Threads : Inside(thread'[t])}) <= 1
       /\ notebook' # notebook =>
              \E t \in Threads :
                  /\ mutex.notebook = t
                  /\ Inside(thread[t])
                  /\ thread'[t] # thread[t]
                  /\ \A u \in Threads \ {t} : thread'[u] = thread[u]]_vars

\* save_notebook is writing the file, holding the notebook, while
\* load_notebook on the other thread waits for the notebook mutex
C15_Witness ==
    \E t, u \in Threads :
        /\ thread[t].at = "writing"
        /\ mutex.notebook = t
        /\ thread[u].at = "lock_notebook"

\* the last call was rejected: link_notes or unlink_notes returned
\* NoteNotFound, or remove_note found no note
Rejected(r) ==
    \/ r.op \in {"link_notes", "unlink_notes"} /\ r.res[1] = "NoteNotFound"
    \/ r.op = "remove_note" /\ r.res = <<"None">>

\* C16: a rejected operation leaves the whole notebook as it was: link_notes
\* or unlink_notes returning NoteNotFound and remove_note of an absent id
\* change no note, no links, no backlink set and not modified_at.
C16_RejectedUnchanged ==
    [][(now' = now /\ Rejected(ret')) => notebook' = notebook]_vars

\* link_notes was rejected in a notebook that holds a note and was last
\* modified before the present time
C16_Witness ==
    /\ ret.op = "link_notes"
    /\ ret.res[1] = "NoteNotFound"
    /\ NotebookLen(notebook) >= 1
    /\ notebook.modified_at < now

\* no target occurs twice
NoDuplicate(links) == \A i, j \in DOMAIN links : links[i] = links[j] => i = j

\* links lists exactly the targets with a surviving insertion, the earlier
\* inserted first
InInsertionOrder(links, ins) ==
    /\ Range(links) = {x \in DOMAIN ins : ins[x] > 0}
    /\ \A i, j \in DOMAIN links : i < j => ins[links[i]] < ins[links[j]]

\* C17: add_link(target) changes nothing (links, modified_at) when target is
\* the note's own id or already in links, and otherwise appends target at the
\* end of links and touches; so after any sequence of add_link and
\* remove_link calls links has no duplicate and lists the targets in the
\* order of their first surviving insertion.
C17_AddLink ==
    [][/\ (ret'.op = "add_link" /\ calls' = calls + 1) =>
            LET target == ret'.a
            IN  IF target = owned.id \/ target \in Range(owned.links)
                THEN owned' = owned
                ELSE /\ owned'.links = Append(owned.links, target)
                     /\ owned'.modified_at = now
                     /\ owned' = [owned EXCEPT !.links = owned'.links, !.modified_at = now]
       /\ NoDuplicate(owned'.links)
       /\ InInsertionOrder(owned'.links, since')]_vars

\* a target that was removed and added again now stands last, behind a
\* target added after its first insertion
C17_Witness ==
    /\ ret.op = "add_link"
    /\ Len(owned.links) = 2
    /\ since[owned.links[2]] = calls
    /\ calls >= 4
    /\ owned.links[2] < owned.links[1]

RECURSIVE Without(_, _)
\* the sequence with every occurrence of x taken out
Without(s, x) ==
    IF s = <<>> THEN <<>>
    ELSE IF Head(s) = x THEN Without(Tail(s), x)
    ELSE <<Head(s)>> \o Without(Tail(s), x)

\* C18: remove_link(target) returns true exactly when target was in links;
\* afterwards target is not in links, the remaining links keep their order,
\* and modified_at is advanced only when a removal occurred.
C18_RemoveLink ==
    [][(ret'.op = "remove_link" /\ calls' = calls + 1) =>
        LET target == ret'.a
            was    == target \in Range(owned.links)
        IN  /\ (ret'.res = <<"true">>) <=> was
            /\ (ret'.res = <<"false">>) <=> ~was
            /\ target \notin Range(owned'.links)
            /\ owned'.links = Without(owned.links, target)
            /\ owned'.modified_at = IF was THEN now ELSE owned.modified_at]_vars

\* remove_link took a link out, some time after the note was made, and left
\* a link that was not the first one inserted
C18_Witness ==
    /\ ret.op = "remove_link"
    /\ ret.res = <<"true">>
    /\ Len(owned.links) = 1
    /\ since[owned.links[1]] > 1
    /\ owned.modified_at = now
    /\ now > owned.created_at

\* C19: cycles are permitted and CircularLink is never returned: for two
\* present notes A and B, link_notes(A, B) and then link_notes(B, A) both
\* succeed and leave A in B.links and B in A.links.
C19_CyclesPermitted ==
    /\ ret.res[1] # "CircularLink"
    /\ \A A, B \in Stored :
           A # B =>
               LET first  == LinkNotes(notebook, A, B, now)
                   second == LinkNotes(first, B, A, now)
               IN  /\ LinkNotesResult(notebook, A, B) = <<"Ok">>
                   /\ LinkNotesResult(first, B, A) = <<"Ok">>
                   /\ B \in Links(second, A)
                   /\ A \in Links(second, B)

\* link_notes has just closed a cycle of two notes
C19_Witness ==
    /\ ret.op = "link_notes"
    /\ ret.res = <<"Ok">>
    /\ ret.a # ret.b
    /\ ret.a \in Stored /\ ret.b \in Stored
    /\ ret.b \in Links(notebook, ret.a)
    /\ ret.a \in Links(notebook, ret.b)
    /\ ret.b \in GetBacklinks(notebook, ret.a)

\* C20: create_note succeeds and returns an id that was not in the notebook;
\* afterwards the notebook holds exactly one more note, the new note has no
\* links and no backlinks, and the links of every other note and every
\* backlink set are as before.
C20_CreateNote ==
    [][(ret'.op = "create_note" /\ issued' = issued + 1) =>
        LET id == ret'.res[2]
        IN  /\ ret'.res[1] = "Id"
            /\ id \notin Stored
            /\ DOMAIN notebook'.notes = Stored \cup {id}
            /\ NotebookLen(notebook') = NotebookLen(notebook) + 1
            /\ notebook'.notes[id].id = id
            /\ notebook'.notes[id].links = <<>>
            /\ GetBacklinks(notebook', id) = {}
            /\ \A n \in Stored : notebook'.notes[n].links = notebook.notes[n].links
            /\ \A k \in Targets : GetBacklinks(notebook', k) = GetBacklinks(notebook, k)]_vars

\* create_note added a note to a notebook that holds a link and its backlink
C20_Witness ==
    /\ ret.op = "create_note"
    /\ NotebookLen(notebook) >= 2
    /\ notebook.notes[ret.a].links = <<>>
    /\ \E n \in Stored, k \in Targets : k \in Links(notebook, n) /\ n \in GetBacklinks(notebook, k)

\* C21: in a notebook reached from empty by create_note, link_notes,
\* unlink_notes and remove_note only, every key of backlinks with a non-empty
\* set and every member of every backlink set is the id of a note that is
\* present: no removed note survives in the index in either role.
C21_IndexHoldsPresentIds ==
    \A k \in DOMAIN notebook.backlinks :
        /\ notebook.backlinks[k] # {} => k \in Stored
        /\ notebook.backlinks[k] \subseteq Stored

\* a note that linked to another note still present was removed, and the
\* set it was a member of is still a key of the index
C21_Witness ==
    /\ ret.op = "remove_note"
    /\ ret.res[1] = "Some"
    /\ ret.a \notin Stored
    /\ \E T \in Range(ret.res[2]) : T \in Stored /\ T \in DOMAIN notebook.backlinks


\* C22: the host commands cannot deadlock. No thread holds the file_path
\* mutex without the notebook mutex (notebook is always taken first), and
\* under any interleaving of the invoked commands every command that was
\* invoked returns.
C22_NoDeadlock ==
    /\ [](\A t \in Threads : mutex.file_path = t => mutex.notebook = t)
    /\ \A t \in Threads : (thread[t].at # "idle") ~> (thread[t].at = "idle")

\* a load_notebook that has read its file waits for the notebook mutex while a
\* save_notebook holds both mutexes
C22_Witness ==
    \E t \in Threads, u \in Threads :
        /\ thread[t].cmd = "save_notebook"
        /\ Held(mutex, t) = {"notebook", "file_path"}
        /\ thread[u].cmd = "load_notebook"
        /\ thread[u].at = "lock_notebook"


\* the step is one of thread t running the command cmd, from its invocation
\* to its return
StepOf(t, cmd) ==
    /\ thread'[t] # thread[t]
    /\ thread[t].cmd = cmd \/ (thread[t].at = "idle" /\ thread'[t].cmd = cmd)

\* the step is the return of thread t from the command cmd
ReturnOf(t, cmd) == thread[t].cmd = cmd /\ thread[t].at # "idle" /\ thread'[t].at = "idle"

\* C23: load_notebook changes the shared state only on success: its return
\* with Ok stores the notebook it loaded and its path, and every other step of
\* it, the return with an error included, leaves the notebook and file_path as
\* they were. file_path changes only by a save_notebook that was given a path
\* (whether or not the save then succeeds), by a successful load_notebook and
\* by new_notebook, which clears it; save_notebook without a path fails with
\* "No file path specified", touching no file, exactly when file_path holds no
\* path, and otherwise attempts the write to the remembered path.
C23_LoadOnlyOnSuccess ==
    [][\A t \in Threads :
          /\ StepOf(t, "load_notebook") =>
                IF ReturnOf(t, "load_notebook") /\ ret'.res[1] = "Ok"
                THEN /\ thread[t].loaded # None
                     /\ notebook' = thread[t].loaded[1]
                     /\ file_path' = thread[t].path
                ELSE notebook' = notebook /\ file_path' = file_path
          /\ HostLoad(t) =>
                IF Load(disk, thread[t].path[1], TRUE)[1] = "Ok" /\ thread'[t].at # "idle"
                THEN thread'[t].loaded = Some(Load(disk, thread[t].path[1], TRUE)[2])
                ELSE ReturnOf(t, "load_notebook") /\ ret'.res[1] = "Err"
          /\ ReturnOf(t, "new_notebook") => file_path' = None
          /\ (HostSaveOpen(t) /\ thread[t].path # None) => file_path' = thread[t].path
          /\ (HostSaveOpen(t) /\ thread[t].path = None) =>
                /\ file_path' = file_path
                /\ IF file_path = None
                   THEN /\ ReturnOf(t, "save_notebook")
                        /\ ret'.res = <<"Err", "No file path specified">>
                        /\ disk' = disk
                   ELSE /\ ret'.res # <<"Err", "No file path specified">>
                        /\ \/ thread'[t].at = "writing" /\ thread'[t].path = file_path
                           \/ ReturnOf(t, "save_notebook") /\ ret'.res = <<"Err", "Io">>
          /\ (StepOf(t, "save_notebook") /\ ~HostSaveOpen(t)) => file_path' = file_path
          /\ (\A c \in {"save_notebook", "load_notebook", "new_notebook"} : ~StepOf(t, c))
                => (thread'[t] # thread[t] => file_path' = file_path)]_vars

\* load_notebook has failed on the text a failed save left behind: the path
\* that save remembered is still the remembered one and the notebook is still
\* the one in memory
C23_Witness ==
    /\ ret.op = "load_notebook"
    /\ ret.res = <<"Err", "Json">>
    /\ file_path # None
    /\ \A t \in Threads : thread[t].at = "idle"

=============================================================================
